---- MODULE Spec2Model ----
(***************************************************************************)
(* Markdown persistence layer of pylisticles                               *)
(* (src/pylisticles/data/persistence.py, src/pylisticles/models/           *)
(* collection.py).                                                         *)
(*                                                                         *)
(* A Python str is a sequence of one-character strings, so that replace,   *)
(* strip, split and join are computed character by character as the code   *)
(* computes them.  The data directory is a function from file names to     *)
(* file contents.                                                          *)
(***************************************************************************)
EXTENDS Integers, Sequences, FiniteSets, TLC

(***************************************************************************)
(* Python str primitives                                                   *)
(***************************************************************************)
MinOf(S) == CHOOSE x \in S : \A y \in S : x <= y

MaxOf(S) == CHOOSE x \in S : \A y \in S : x >= y

\* s[from:] of Python, 1-based
Drop(s, k) == SubSeq(s, k + 1, Len(s))

\* str.strip() without arguments strips these
Whitespace == {" ", "\n", "\t", "\r"}

\* str.strip(chars)
str_strip(s, chars) ==
    LET keep == {i \in 1..Len(s) : s[i] \notin chars}
    IN  IF keep = {} THEN <<>> ELSE SubSeq(s, MinOf(keep), MaxOf(keep))

str_startswith(s, p) == Len(s) >= Len(p) /\ SubSeq(s, 1, Len(p)) = p

str_endswith(s, p) == Len(s) >= Len(p) /\ SubSeq(s, Len(s) - Len(p) + 1, Len(s)) = p

\* the positions where sep occurs in s
Occurrences(s, sep) == {i \in 1..(Len(s) - Len(sep) + 1) : SubSeq(s, i, i + Len(sep) - 1) = sep}

\* sub in s
str_contains(s, sub) == Occurrences(s, sub) # {}

RECURSIVE str_split(_, _)
\* str.split(sep)
str_split(s, sep) ==
    LET hits == Occurrences(s, sep)
    IN  IF hits = {} THEN <<s>>
        ELSE <<SubSeq(s, 1, MinOf(hits) - 1)>>
             \o str_split(Drop(s, MinOf(hits) + Len(sep) - 1), sep)

\* str.split(sep, 1)
str_split1(s, sep) ==
    LET hits == Occurrences(s, sep)
    IN  IF hits = {} THEN <<s>>
        ELSE <<SubSeq(s, 1, MinOf(hits) - 1), Drop(s, MinOf(hits) + Len(sep) - 1)>>

RECURSIVE str_replace(_, _, _)
\* str.replace(old, new), old non-empty
str_replace(s, old, new) ==
    IF Len(s) < Len(old) THEN s
    ELSE IF SubSeq(s, 1, Len(old)) = old
         THEN new \o str_replace(Drop(s, Len(old)), old, new)
         ELSE <<Head(s)>> \o str_replace(Tail(s), old, new)

RECURSIVE str_join(_, _)
\* sep.join(parts)
str_join(sep, parts) ==
    IF parts = <<>> THEN <<>>
    ELSE IF Len(parts) = 1 THEN parts[1]
    ELSE parts[1] \o sep \o str_join(sep, Tail(parts))

\* the characters U+2713 (check mark) and U+2717 (ballot x), each one element of a str
CheckMark == "U+2713"

CrossMark == "U+2717"

\* code points of the characters the model uses, for sorted()
CodePoint(c) ==
    CASE c = "\t" -> 9    [] c = "\n" -> 10   [] c = "\r" -> 13
      [] c = " "  -> 32   [] c = "\"" -> 34   [] c = "#"  -> 35
      [] c = "*"  -> 42   [] c = "+"  -> 43   [] c = "-"  -> 45
      [] c = "."  -> 46   [] c = "/"  -> 47   [] c = "0"  -> 48
      [] c = "1"  -> 49   [] c = "2"  -> 50   [] c = "3"  -> 51
      [] c = "4"  -> 52   [] c = "5"  -> 53   [] c = "6"  -> 54
      [] c = "7"  -> 55   [] c = "8"  -> 56   [] c = "9"  -> 57
      [] c = ":"  -> 58   [] c = "<"  -> 60   [] c = ">"  -> 62
      [] c = "?"  -> 63   [] c = "\\" -> 92   [] c = "_"  -> 95
      [] c = "a"  -> 97   [] c = "b"  -> 98   [] c = "c"  -> 99
      [] c = "d"  -> 100  [] c = "e"  -> 101  [] c = "f"  -> 102
      [] c = "g"  -> 103  [] c = "i"  -> 105  [] c = "l"  -> 108
      [] c = "m"  -> 109  [] c = "n"  -> 110  [] c = "o"  -> 111
      [] c = "t"  -> 116  [] c = "u"  -> 117  [] c = "|"  -> 124
      [] c = CheckMark -> 10003 [] c = CrossMark -> 10007
      [] OTHER    -> 1114111

RECURSIVE str_lt(_, _)
\* a < b on str: lexicographic by code point
str_lt(a, b) ==
    IF b = <<>> THEN FALSE
    ELSE IF a = <<>> THEN TRUE
    ELSE IF CodePoint(a[1]) # CodePoint(b[1]) THEN CodePoint(a[1]) < CodePoint(b[1])
    ELSE str_lt(Tail(a), Tail(b))

RECURSIVE sorted(_)
\* sorted(list) of a list of distinct str, given as the set of its elements
sorted(S) ==
    IF S = {} THEN <<>>
    ELSE LET m == CHOOSE x \in S : \A y \in S \ {x} : str_lt(x, y)
         IN  <<m>> \o sorted(S \ {m})

(***************************************************************************)
(* Python numbers: str(int), int(str), str(float), float(str)              *)
(***************************************************************************)
DigitChars == <<"0", "1", "2", "3", "4", "5", "6", "7", "8", "9">>

Digits == {DigitChars[i] : i \in 1..10}

DigitVal(c) == (CHOOSE i \in 1..10 : DigitChars[i] = c) - 1

RECURSIVE nat_str(_)
nat_str(n) ==
    IF n < 10 THEN <<DigitChars[n + 1]>>
    ELSE nat_str(n \div 10) \o <<DigitChars[(n % 10) + 1]>>

\* str(value) of an int
int_str(n) == IF n < 0 THEN <<"-">> \o nat_str(-n) ELSE nat_str(n)

\* a run of digits, single underscores allowed between digits
DigitGroup(s) ==
    /\ Len(s) > 0
    /\ s[1] \in Digits
    /\ s[Len(s)] \in Digits
    /\ \A i \in 1..Len(s) : s[i] \in Digits \cup {"_"}
    /\ \A i \in 1..(Len(s) - 1) : ~(s[i] = "_" /\ s[i + 1] = "_")

IsDigit(c) == c \in Digits

DigitsOf(s) == SelectSeq(s, IsDigit)

RECURSIVE NatOf(_)
NatOf(ds) ==
    IF ds = <<>> THEN 0
    ELSE NatOf(SubSeq(ds, 1, Len(ds) - 1)) * 10 + DigitVal(ds[Len(ds)])

\* an optional sign split off
Signed(s) ==
    IF Len(s) > 0 /\ s[1] \in {"+", "-"}
    THEN [neg |-> s[1] = "-", rest |-> Tail(s)]
    ELSE [neg |-> FALSE, rest |-> s]

\* int(value): ok = FALSE stands for ValueError
py_int(value) ==
    LET t == Signed(str_strip(value, Whitespace))
    IN  IF DigitGroup(t.rest)
        THEN [ok |-> TRUE, n |-> IF t.neg THEN -NatOf(DigitsOf(t.rest)) ELSE NatOf(DigitsOf(t.rest))]
        ELSE [ok |-> FALSE, n |-> 0]

RECURSIVE Normal(_, _)
\* the decimal m * 10^e without trailing zeros in m
Normal(m, e) ==
    IF m = 0 THEN [m |-> 0, e |-> 0]
    ELSE IF m % 10 = 0 THEN Normal(m \div 10, e + 1)
    ELSE [m |-> m, e |-> e]

\* A float is the decimal (-1)^neg * m * 10^e its repr shows; the model's floats
\* have few enough digits for repr and float to be exact on them.
\* float(value) for a decimal literal: ok = FALSE stands for ValueError.
\* (inf, nan and infinity hold no "." and never reach float() in this code.)
py_float(value) ==
    LET t    == Signed(str_strip(value, Whitespace))
        low  == [i \in 1..Len(t.rest) |-> IF t.rest[i] = "E" THEN "e" ELSE t.rest[i]]
        me   == str_split1(low, <<"e">>)
        mp   == str_split(me[1], <<".">>)
        ip   == mp[1]
        fp   == IF Len(mp) > 1 THEN mp[2] ELSE <<>>
        ex   == IF Len(me) > 1 THEN Signed(me[2]) ELSE [neg |-> FALSE, rest |-> <<"0">>]
        good == /\ Len(mp) <= 2
                /\ ip = <<>> \/ DigitGroup(ip)
                /\ fp = <<>> \/ DigitGroup(fp)
                /\ ~(ip = <<>> /\ fp = <<>>)
                /\ DigitGroup(ex.rest)
        x    == IF ex.neg THEN -NatOf(DigitsOf(ex.rest)) ELSE NatOf(DigitsOf(ex.rest))
        nm   == Normal(NatOf(DigitsOf(ip) \o DigitsOf(fp)), x - Len(DigitsOf(fp)))
    IN  IF good
        THEN [ok |-> TRUE, neg |-> t.neg, m |-> nm.m, e |-> nm.e]
        ELSE [ok |-> FALSE, neg |-> FALSE, m |-> 0, e |-> 0]

\* repr switches to exponent notation outside 1e-4 <= |x| < 1e16
ReprMinDecpt == -4

ReprMaxDecpt == 16

Zeros(k) == [i \in 1..k |-> "0"]

\* str(value) of a float (the shortest repr)
float_str(neg, m, e) ==
    LET ds    == nat_str(m)
        n     == Len(ds)
        decpt == n + e
        x     == decpt - 1
        ax    == IF x < 0 THEN -x ELSE x
        body  ==
            IF m = 0 THEN <<"0", ".", "0">>
            ELSE IF ReprMinDecpt < decpt /\ decpt <= ReprMaxDecpt
            THEN IF e >= 0 THEN ds \o Zeros(e) \o <<".", "0">>
                 ELSE IF decpt > 0 THEN SubSeq(ds, 1, decpt) \o <<".">> \o SubSeq(ds, decpt + 1, n)
                 ELSE <<"0", ".">> \o Zeros(-decpt) \o ds
            ELSE <<ds[1]>> \o (IF n > 1 THEN <<".">> \o Tail(ds) ELSE <<>>)
                 \o <<"e", IF x < 0 THEN "-" ELSE "+">>
                 \o (IF ax < 10 THEN <<"0">> ELSE <<>>) \o nat_str(ax)
    IN  (IF neg THEN <<"-">> ELSE <<>>) \o body

(***************************************************************************)
(* Data model (models/collection.py)                                       *)
(***************************************************************************)
\* the values of Item.data: Union[str, int, float, bool]
StrV(s) == [t |-> "str", s |-> s]

IntV(n) == [t |-> "int", n |-> n]

FloatV(neg, m, e) == [t |-> "float", neg |-> neg, m |-> m, e |-> e]

BoolV(b) == [t |-> "bool", b |-> b]

\* Field(name, type, required, options)
Field(name, type, required, options) ==
    [name |-> name, type |-> type, required |-> required, options |-> options]

\* Item(data): id is the uuid4 drawn at construction, taken from a counter
Item(data, id) == [id |-> id, data |-> data]

\* Collection(name, type, fields, items, created_at, updated_at)
Collection(name, type, fields, items, created_at, updated_at) ==
    [name |-> name, type |-> type, fields |-> fields, items |-> items,
     created_at |-> created_at, updated_at |-> updated_at]

\* Collection.add_item: the Item of id item_id is built, appended, and
\* updated_at is set to t, the reading of datetime.now()
add_item(collection, data, item_id, t) ==
    [collection |-> [collection EXCEPT !.items = Append(@, Item(data, item_id)),
                                       !.updated_at = t],
     item       |-> Item(data, item_id)]

get_field_names(collection) ==
    [i \in 1..Len(collection.fields) |-> collection.fields[i].name]

\* dict.get(key, default)
dict_get(d, key, default) == IF key \in DOMAIN d THEN d[key] ELSE default

(***************************************************************************)
(* Path resolver                                                           *)
(***************************************************************************)
\* the character class [<>:"/\\|?*]
UnsafeChars == {"<", ">", ":", "\"", "/", "\\", "|", "?", "*"}

UnnamedCollection ==
    <<"u", "n", "n", "a", "m", "e", "d", "_", "c", "o", "l", "l", "e", "c", "t", "i", "o", "n">>

\* the replacement and the strip without the test for an empty name
sanitize_filename_unchecked(name) ==
    str_strip([i \in 1..Len(name) |-> IF name[i] \in UnsafeChars THEN "_" ELSE name[i]],
              {".", " "})

\* CollectionStorage._sanitize_filename
sanitize_filename(name) ==
    LET replaced  == [i \in 1..Len(name) |-> IF name[i] \in UnsafeChars THEN "_" ELSE name[i]]
        safe_name == str_strip(replaced, {".", " "})
    IN  IF safe_name = <<>> THEN UnnamedCollection ELSE safe_name

MdSuffix == <<".", "m", "d">>

\* CollectionStorage._get_file_path: the file's name inside data_dir
get_file_path(collection_name) == sanitize_filename(collection_name) \o MdSuffix

\* the file name as a whole, suffix included
path_name(filename) == filename

\* Path.stem: the file name without its last suffix
path_stem(filename) ==
    LET dots == {i \in 2..Len(filename) : filename[i] = "."}
    IN  IF dots = {} \/ MaxOf(dots) = Len(filename) THEN filename
        ELSE SubSeq(filename, 1, MaxOf(dots) - 1)

(***************************************************************************)
(* Frontmatter: the YAML document                                          *)
(***************************************************************************)
\* datetime.isoformat() and datetime.fromisoformat(): a datetime is its tick
serialize_datetime(dt) == [iso |-> dt]

deserialize_datetime(dt_str) == dt_str.iso

\* the frontmatter holding the file's name instead of the collection's
collection_to_yaml_data_safe_name(collection) ==
    [collection |->
        [name       |-> sanitize_filename(collection.name),
         type       |-> collection.type,
         created_at |-> serialize_datetime(collection.created_at),
         updated_at |-> serialize_datetime(collection.updated_at)],
     fields |->
        [i \in 1..Len(collection.fields) |->
            [name     |-> collection.fields[i].name,
             type     |-> collection.fields[i].type,
             required |-> collection.fields[i].required,
             options  |-> collection.fields[i].options]]]

\* CollectionStorage._collection_to_yaml_data
collection_to_yaml_data(collection) ==
    [collection |->
        [name       |-> collection.name,
         type       |-> collection.type,
         created_at |-> serialize_datetime(collection.created_at),
         updated_at |-> serialize_datetime(collection.updated_at)],
     fields |->
        [i \in 1..Len(collection.fields) |->
            [name     |-> collection.fields[i].name,
             type     |-> collection.fields[i].type,
             required |-> collection.fields[i].required,
             options  |-> collection.fields[i].options]]]

\* The text yaml.dump writes is one element of the file's text, followed by the
\* line break that ends it; the data it denotes is kept beside the text.
YamlDoc == "<yaml>"

yaml_dump(yaml_data) == <<YamlDoc, "\n">>

\* yaml.safe_load: the data of the dumped document; any other text is not one
yaml_safe_load(yaml_content, doc) ==
    IF yaml_content \in {<<YamlDoc>>, <<YamlDoc, "\n">>}
    THEN [ok |-> TRUE, data |-> doc]
    ELSE [ok |-> FALSE, data |-> <<>>]

(***************************************************************************)
(* Table codec                                                             *)
(***************************************************************************)
Pipe == <<"|">>

EscapedPipe == <<"\\", "|">>

NL == <<"\n">>

\* the cell of one value (lines 97-105)
cell_text(value) ==
    IF value.t = "bool" THEN (IF value.b THEN <<CheckMark>> ELSE <<CrossMark>>)
    ELSE IF value.t = "int" THEN int_str(value.n)
    ELSE IF value.t = "float" THEN float_str(value.neg, value.m, value.e)
    ELSE str_replace(value.s, Pipe, EscapedPipe)

\* "| " + " | ".join(cells) + " |"
table_row(cells) == <<"|", " ">> \o str_join(<<" ", "|", " ">>, cells) \o <<" ", "|">>

\* CollectionStorage._items_to_markdown_table
items_to_markdown_table(collection) ==
    LET field_names == get_field_names(collection)
        header      == table_row(field_names)
        separator   == table_row([i \in 1..Len(field_names) |-> <<"-", "-", "-">>])
        rows        ==
            [k \in 1..Len(collection.items) |->
                table_row([i \in 1..Len(field_names) |->
                    cell_text(dict_get(collection.items[k].data, field_names[i], StrV(<<>>)))])]
    IN  IF collection.items = <<>> THEN <<>>
        ELSE IF field_names = <<>> THEN <<>>
        ELSE str_join(NL, <<header, separator>> \o rows)

\* except ValueError: the raw text, pipes unescaped (line 166)
text_or(r, value, converted) ==
    IF r.ok THEN converted ELSE StrV(str_replace(value, EscapedPipe, Pipe))

float_cell(r, value) == text_or(r, value, FloatV(r.neg, r.m, r.e))

int_cell(r, value) == text_or(r, value, IntV(r.n))

\* a boolean cell read as true unless it is the ballot x
convert_cell_unless_cross(field_type, value) ==
    IF field_type = "boolean" THEN BoolV(value # <<CrossMark>>)
    ELSE IF field_type = "number"
    THEN IF str_contains(value, <<".">>) THEN float_cell(py_float(value), value)
         ELSE int_cell(py_int(value), value)
    ELSE StrV(str_replace(value, EscapedPipe, Pipe))

\* the conversion of one non-empty cell (lines 150-166)
convert_cell(field_type, value) ==
    IF field_type = "boolean" THEN BoolV(value = <<CheckMark>>)
    ELSE IF field_type = "number"
    THEN IF str_contains(value, <<".">>) THEN float_cell(py_float(value), value)
         ELSE int_cell(py_int(value), value)
    ELSE StrV(str_replace(value, EscapedPipe, Pipe))

\* [x.strip() for x in parts]
strip_all(parts) == [i \in 1..Len(parts) |-> str_strip(parts[i], Whitespace)]

\* [x.strip() for x in line[1:-1].split("|")]
split_cells(line) == strip_all(str_split(SubSeq(line, 2, Len(line) - 1), Pipe))

\* the last field of that name
last_type(fields, at) == IF at = {} THEN "text" ELSE fields[MaxOf(at)].type

\* {field.name: field.type for field in fields}.get(field_name, "text")
field_type_of(fields, field_name) ==
    last_type(fields, {i \in 1..Len(fields) : fields[i].name = field_name})

\* the cells of a row that hold text, by column name: a later column of the same name wins
filled_data(field_names, values, fields, filled) ==
    [name \in {field_names[j] : j \in filled} |->
        convert_cell(field_type_of(fields, name),
                     values[MaxOf({j \in filled : field_names[j] = name})])]

\* item_data of one row (lines 145-166)
row_data(field_names, values, fields) ==
    filled_data(field_names, values, fields, {j \in 1..Len(values) : values[j] # <<>>})

RECURSIVE AssignIds(_, _)
\* Item(data=item_data) for each row kept, the ids drawn after uuid
AssignIds(datas, uuid) ==
    IF datas = <<>> THEN <<>>
    ELSE <<Item(Head(datas), uuid + 1)>> \o AssignIds(Tail(datas), uuid + 1)

\* if item_data: items.append(...)
row_if_data(data) == IF DOMAIN data = {} THEN <<>> ELSE <<data>>

\* cells beyond the header's columns dropped as zip() would, the row kept
row_of_cells_zip(values, field_names, fields) ==
    IF Len(values) < Len(field_names) THEN <<>>
    ELSE row_if_data(row_data(field_names, SubSeq(values, 1, Len(field_names)), fields))

\* a row of as many cells as the header has columns, else skipped
row_of_cells(values, field_names, fields) ==
    IF Len(values) # Len(field_names) THEN <<>>
    ELSE row_if_data(row_data(field_names, values, fields))

\* one stripped line of lines[2:] (lines 136-169): no item or one
row_of_line(line, field_names, fields) ==
    IF ~str_startswith(line, Pipe) \/ ~str_endswith(line, Pipe) THEN <<>>
    ELSE row_of_cells(split_cells(line), field_names, fields)

RECURSIVE KeptRows(_, _, _)
\* the loop over lines[2:] (lines 135-169)
KeptRows(lines, field_names, fields) ==
    IF lines = <<>> THEN <<>>
    ELSE row_of_line(str_strip(Head(lines), Whitespace), field_names, fields)
         \o KeptRows(Tail(lines), field_names, fields)

\* from the stripped header line on (lines 124-171)
items_of_rows(header_line, rows, fields, uuid) ==
    IF ~str_startswith(header_line, Pipe) \/ ~str_endswith(header_line, Pipe) THEN <<>>
    ELSE AssignIds(KeptRows(rows, split_cells(header_line), fields), uuid)

\* from the lines on (lines 120-171)
items_of_lines(lines, fields, uuid) ==
    IF Len(lines) < 3 THEN <<>>
    ELSE items_of_rows(str_strip(lines[1], Whitespace), Drop(lines, 2), fields, uuid)

\* from the stripped content on (lines 116-171)
items_of_stripped(stripped, fields, uuid) ==
    IF stripped = <<>> THEN <<>>
    ELSE items_of_lines(str_split(stripped, NL), fields, uuid)

\* CollectionStorage._markdown_table_to_items
markdown_table_to_items(markdown_content, fields, uuid) ==
    items_of_stripped(str_strip(markdown_content, Whitespace), fields, uuid)

(***************************************************************************)
(* Collection store: the operations as functions of the data directory     *)
(***************************************************************************)
\* the only exception class of the module; cause is the exception it wraps
PersistenceError(msg, cause) == [cls |-> "PersistenceError", msg |-> msg, cause |-> cause]

NoError == [cls |-> "", msg |-> "", cause |-> ""]

FrontmatterOpen == <<"-", "-", "-", "\n">>

FrontmatterClose == <<"\n", "-", "-", "-", "\n">>

\* the content save_collection writes (lines 178-190)
file_content(collection) ==
    LET yaml_data      == collection_to_yaml_data(collection)
        yaml_content   == yaml_dump(yaml_data)
        markdown_table == items_to_markdown_table(collection)
        content        == FrontmatterOpen \o yaml_content \o <<"-", "-", "-", "\n", "\n">>
                          \o <<"#", " ">> \o collection.name \o <<"\n", "\n">>
    IN  [yaml |-> yaml_data,
         text |-> IF markdown_table # <<>> THEN content \o markdown_table \o NL ELSE content]

\* a write that leaves no other file in the directory
write_file_alone(d, file_path, content) == [f \in {file_path} |-> content]

\* open(file_path, "w").write(content)
write_file(d, file_path, content) ==
    [f \in DOMAIN d \cup {file_path} |-> IF f = file_path THEN content ELSE d[f]]

\* open(file_path, "w"): the file is there and empty
truncate(d, file_path) == write_file(d, file_path, [yaml |-> <<>>, text |-> <<>>])

\* the content put in place of the file as a whole, as a rename would
flush_replace(d, file_path, content) == write_file(d, file_path, content)

\* f.write(content) and the close that flushes it: the characters go to the
\* start of the file as it is by then, and what lies beyond them stays
flush(d, file_path, content) ==
    write_file(d, file_path,
               [yaml |-> content.yaml,
                text |-> content.text \o Drop(d[file_path].text, Len(content.text))])

\* a save that refuses to replace the file of a collection of another name
save_collection_no_clobber(d, collection) ==
    IF /\ get_file_path(collection.name) \in DOMAIN d
       /\ d[get_file_path(collection.name)].yaml.collection.name # collection.name
    THEN [ok |-> FALSE, dir |-> d, error |-> PersistenceError("Failed to save collection", "FileExistsError")]
    ELSE [ok    |-> TRUE,
          dir   |-> write_file(d, get_file_path(collection.name), file_content(collection)),
          error |-> NoError]

\* CollectionStorage.save_collection
save_collection(d, collection) ==
    [ok    |-> TRUE,
     dir   |-> write_file(d, get_file_path(collection.name), file_content(collection)),
     error |-> NoError]

IsTableLine(l) == str_startswith(str_strip(l, Whitespace), Pipe)

IsTableStart(l) == IsTableLine(l) /\ str_contains(Drop(str_strip(l, Whitespace), 1), Pipe)

EndsTable(l) == ~IsTableLine(l) /\ str_strip(l, Whitespace) # <<>>

\* the lines from table_start up to the first line that ends the table (lines 257-263)
table_span(rest, stops) ==
    IF stops = {} THEN rest ELSE SubSeq(rest, 1, MinOf(stops) - 1)

\* lines[table_start:], the table lines kept and joined (lines 254-264)
table_from(rest) ==
    str_join(NL, SelectSeq(table_span(rest, {i \in 1..Len(rest) : EndsTable(rest[i])}),
                           IsTableLine))

table_at(lines, starts) ==
    IF starts = {} THEN <<>> ELSE table_from(Drop(lines, MinOf(starts) - 1))

\* the first table line of the body's lines, if any (lines 248-252)
table_of_lines(lines) == table_at(lines, {i \in 1..Len(lines) : IsTableStart(lines[i])})

\* the table text found in the body (lines 247-264)
table_content_of(markdown_content) ==
    table_of_lines(str_split(str_strip(markdown_content, Whitespace), NL))

\* the Field objects of fields_data (lines 235-243); KeyError when name or type is missing
fields_of(fields_data) ==
    [i \in 1..Len(fields_data) |->
        Field(fields_data[i].name,
              fields_data[i].type,
              IF "required" \in DOMAIN fields_data[i] THEN fields_data[i].required ELSE FALSE,
              IF "options" \in DOMAIN fields_data[i] THEN fields_data[i].options ELSE <<>>)]

\* raise PersistenceError(msg), passed on by "except PersistenceError: raise"
Raised(msg, uuid) ==
    [ok |-> FALSE, value |-> <<>>, uuid |-> uuid, error |-> PersistenceError(msg, "")]

\* any other exception, wrapped by "except Exception as e" (lines 282-285)
Wrapped(cause, uuid) ==
    [ok |-> FALSE, value |-> <<>>, uuid |-> uuid,
     error |-> PersistenceError("Failed to load collection", cause)]

\* updated_at taken from the moment of the load in place of the file
load_build_stamped(collection_data, fields, items, uuid) ==
    IF ~({"name", "type", "created_at", "updated_at"} \subseteq DOMAIN collection_data)
    THEN Wrapped("KeyError", uuid + Len(items))
    ELSE [ok    |-> TRUE,
          uuid  |-> uuid + Len(items),
          value |-> Collection(collection_data.name, collection_data.type, fields, items,
                               deserialize_datetime(collection_data.created_at),
                               uuid + Len(items)),
          error |-> NoError]

\* Collection(...) of the decoded parts (lines 268-278)
load_build(collection_data, fields, items, uuid) ==
    IF ~({"name", "type", "created_at", "updated_at"} \subseteq DOMAIN collection_data)
    THEN Wrapped("KeyError", uuid + Len(items))
    ELSE [ok    |-> TRUE,
          uuid  |-> uuid + Len(items),
          value |-> Collection(collection_data.name, collection_data.type, fields, items,
                               deserialize_datetime(collection_data.created_at),
                               deserialize_datetime(collection_data.updated_at)),
          error |-> NoError]

\* the items of the body's table (lines 245-266)
load_items(collection_data, fields, markdown_content, uuid) ==
    load_build(collection_data, fields,
               markdown_table_to_items(table_content_of(markdown_content), fields, uuid), uuid)

HasNameAndType(field_data) == {"name", "type"} \subseteq DOMAIN field_data

\* field entries without name or type left out instead of failing
load_fields_lenient(collection_data, fields_data, markdown_content, uuid) ==
    load_items(collection_data, fields_of(SelectSeq(fields_data, HasNameAndType)),
               markdown_content, uuid)

\* the Field objects (lines 234-243)
load_fields(collection_data, fields_data, markdown_content, uuid) ==
    IF \E i \in 1..Len(fields_data) : ~({"name", "type"} \subseteq DOMAIN fields_data[i])
    THEN Wrapped("KeyError", uuid)
    ELSE load_items(collection_data, fields_of(fields_data), markdown_content, uuid)

\* yaml_data.get("collection", {}) and yaml_data.get("fields", []) (lines 231-232)
load_data(yaml_data, markdown_content, uuid) ==
    load_fields(IF "collection" \in DOMAIN yaml_data THEN yaml_data.collection ELSE <<>>,
                IF "fields" \in DOMAIN yaml_data THEN yaml_data.fields ELSE <<>>,
                markdown_content, uuid)

\* the parsed frontmatter (lines 227-229)
load_yaml(loaded, markdown_content, uuid) ==
    IF ~loaded.ok THEN Raised("Invalid YAML data", uuid)
    ELSE load_data(loaded.data, markdown_content, uuid)

\* yaml_content, markdown_content = parts (lines 218-224)
load_parts(parts, doc, uuid) ==
    IF Len(parts) # 2 THEN Raised("Invalid file format: malformed frontmatter", uuid)
    ELSE load_yaml(yaml_safe_load(parts[1], doc), parts[2], uuid)

\* the content read (lines 212-218)
load_content(content, uuid) ==
    IF ~str_startswith(content.text, FrontmatterOpen)
    THEN Raised("Invalid file format: missing YAML frontmatter", uuid)
    ELSE load_parts(str_split1(Drop(content.text, 4), FrontmatterClose), content.yaml, uuid)

load_path(d, file_path, uuid) ==
    IF file_path \notin DOMAIN d THEN Raised("not found", uuid)
    ELSE load_content(d[file_path], uuid)

\* CollectionStorage.load_collection; uuid counts the Item ids drawn so far
load_collection(d, collection_name, uuid) ==
    load_path(d, get_file_path(collection_name), uuid)

\* file_path.name in place of file_path.stem
list_collections_names(d) == sorted({g \in DOMAIN d : str_endswith(g, MdSuffix)})

\* CollectionStorage.list_collections: data_dir.glob("*.md"), stems, sorted
list_collections(d) ==
    sorted({path_stem(f) : f \in {g \in DOMAIN d : str_endswith(g, MdSuffix)}})

\* file_path.unlink()
unlink(d, file_path) == [f \in DOMAIN d \ {file_path} |-> d[f]]

\* unlink(missing_ok=True) without the existence check
delete_path_missing_ok(d, file_path) ==
    [ok |-> TRUE, dir |-> unlink(d, file_path), error |-> NoError]

delete_path(d, file_path) ==
    IF file_path \notin DOMAIN d
    THEN [ok |-> FALSE, dir |-> d, error |-> PersistenceError("not found", "")]
    ELSE [ok |-> TRUE, dir |-> unlink(d, file_path), error |-> NoError]

\* CollectionStorage.delete_collection
delete_collection(d, collection_name) == delete_path(d, get_file_path(collection_name))

\* the existence check on the unsanitized name
collection_exists_raw(d, collection_name) == (collection_name \o MdSuffix) \in DOMAIN d

\* CollectionStorage.collection_exists
collection_exists(d, collection_name) == get_file_path(collection_name) \in DOMAIN d

(***************************************************************************)
(* State                                                                   *)
(*   dir      the data directory: file name -> file content               *)
(*   uuid     the number of Item ids drawn so far                         *)
(*   journal  history: file name -> the names saved to that file since it *)
(*            was last deleted, and the Collection saved last             *)
(*   result   the last call: its operation, arguments and outcome         *)
(*   mem      the Collection object in memory that add_item works on      *)
(*   now      the clock datetime.now() reads                              *)
(*   writer   per store instance, the save between open() and close()     *)
(***************************************************************************)
VARIABLES dir, uuid, journal, result, mem, now, writer

vars == <<dir, uuid, journal, result, mem, now, writer>>

\* what no call on the store touches: the object in memory and the clock
memory == <<mem, now>>

\* the CollectionStorage instances on the data directory
Stores == {1, 2}

\* no file open for writing
Idle == [open |-> FALSE]

\* Item ids a run of the store may draw
MaxUuid == 2

\* items of a Collection handed to the codec
MaxItems == 2

\* characters of a hand-written table cell
MaxCellLen == 3

\* characters of a collection name handed to the path resolver
MaxNameLen == 3

\* readings of the clock
MaxClock == 2

\* data lines of a hand-written table
MaxRows == 3

Outcome(op, name, arg, ok, value, error) ==
    [op |-> op, name |-> name, arg |-> arg, ok |-> ok, value |-> value, error |-> error]

Init ==
    /\ dir = <<>>
    /\ uuid = 0
    /\ journal = <<>>
    /\ result = Outcome("none", <<>>, <<>>, TRUE, <<>>, NoError)
    /\ mem = <<>>
    /\ now = 0
    /\ writer = [i \in Stores |-> Idle]

\* the journal after a save to file_path
journal_save(file_path, collection, before) ==
    [f \in DOMAIN journal \cup {file_path} |->
        IF f = file_path
        THEN [names |-> before \cup {collection.name}, last |-> collection]
        ELSE journal[f]]

Saved(collection, r, file_path) ==
    /\ dir' = r.dir
    /\ journal' = IF r.ok
                  THEN journal_save(file_path, collection,
                                    IF file_path \in DOMAIN journal
                                    THEN journal[file_path].names ELSE {})
                  ELSE journal
    /\ result' = Outcome("save", collection.name, collection, r.ok, <<>>, r.error)
    /\ UNCHANGED <<uuid, memory, writer>>

\* storage.save_collection(collection)
Save(collection) ==
    Saved(collection, save_collection(dir, collection), get_file_path(collection.name))

Loaded(collection_name, r, cap) ==
    /\ r.uuid <= cap
    /\ uuid' = r.uuid
    /\ result' = Outcome("load", collection_name, <<>>, r.ok, r.value, r.error)
    /\ UNCHANGED <<dir, journal, memory, writer>>

\* storage.load_collection(collection_name), while it draws no Item id beyond cap
Load(collection_name, cap) ==
    Loaded(collection_name, load_collection(dir, collection_name, uuid), cap)

\* storage.list_collections()
List ==
    /\ result' = Outcome("list", <<>>, <<>>, TRUE, list_collections(dir), NoError)
    /\ UNCHANGED <<dir, uuid, journal, memory, writer>>

Deleted(collection_name, r, file_path) ==
    /\ dir' = r.dir
    /\ journal' = IF r.ok THEN [f \in DOMAIN journal \ {file_path} |-> journal[f]] ELSE journal
    /\ result' = Outcome("delete", collection_name, <<>>, r.ok, <<>>, r.error)
    /\ UNCHANGED <<uuid, memory, writer>>

\* storage.delete_collection(collection_name)
Delete(collection_name) ==
    Deleted(collection_name, delete_collection(dir, collection_name),
            get_file_path(collection_name))

\* storage.collection_exists(collection_name)
Exists(collection_name) ==
    /\ result' = Outcome("exists", collection_name, <<>>, TRUE,
                         collection_exists(dir, collection_name), NoError)
    /\ UNCHANGED <<dir, uuid, journal, memory, writer>>

(***************************************************************************)
(* The store under any sequence of calls                                   *)
(***************************************************************************)
\* "a/" and "a|" share a_.md, "." is unnamed_collection.md, "b" is b.md
StoreNames == {<<"a", "/">>, <<"a", "|">>, <<".">>, <<"b">>}

StoreFields == <<Field(<<"t">>, "text", TRUE, <<>>), Field(<<"n">>, "number", FALSE, <<>>)>>

StoreItem == Item((<<"t">> :> StrV(<<"x">>)) @@ (<<"n">> :> IntV(7)), -1)

StoreColls ==
    {Collection(n, "empty", StoreFields, <<>>, 0, 0) : n \in StoreNames}
    \cup {Collection(n, "one", StoreFields, <<StoreItem>>, 0, 1) : n \in StoreNames}

Next ==
    \/ \E c \in StoreColls : Save(c)
    \/ \E n \in StoreNames : Load(n, MaxUuid)
    \/ List
    \/ \E n \in StoreNames : Delete(n)
    \/ \E n \in StoreNames : Exists(n)

Spec == Init /\ [][Next]_vars

(***************************************************************************)
(* The codec on one Collection: save it, then load it                      *)
(***************************************************************************)
TextField == Field(<<"t">>, "text", TRUE, <<>>)

NumberField == Field(<<"n">>, "number", FALSE, <<>>)

BoolField == Field(<<"b">>, "boolean", FALSE, <<>>)

\* a field whose name starts with a space
PaddedField == Field(<<" ", "t">>, "text", FALSE, <<>>)

CodecFieldLists ==
    {<<>>, <<TextField>>, <<NumberField>>, <<PaddedField>>, <<TextField, NumberField, BoolField>>}

\* "x" and "a|b"
TextValues == {StrV(<<"x">>), StrV(<<"a", "|", "b">>)}

\* 4, 9.99 and 1e16
NumberValues == {IntV(4), FloatV(FALSE, 999, -2), FloatV(FALSE, 1, 16)}

BoolValues == {BoolV(TRUE), BoolV(FALSE)}

ValuesOf(type) ==
    IF type = "boolean" THEN BoolValues
    ELSE IF type = "number" THEN NumberValues
    ELSE TextValues

FieldNamed(fields, name) == fields[CHOOSE i \in 1..Len(fields) : fields[i].name = name]

\* the data of an Item: a value of the declared type for some of the fields
ItemDatasOf(fields) ==
    UNION {{d \in [keys -> TextValues \cup NumberValues \cup BoolValues] :
               \A k \in keys : d[k] \in ValuesOf(FieldNamed(fields, k).type)}
           : keys \in SUBSET {fields[i].name : i \in 1..Len(fields)}}

\* the Items were built before the store draws its first id
ItemListsOf(fields) ==
    UNION {{[k \in 1..n |-> Item(ds[k], -k)] : ds \in [1..n -> ItemDatasOf(fields)]}
           : n \in 0..MaxItems}

\* a name whose second and later lines read as a table
TableName == <<"n", "\n", "|", "f", "|", "\n", "|", "-", "|", "\n", "|", "v", "|">>

CodecColls(fields) ==
    {Collection(<<"c">>, "todo", fields, items, 0, 1) : items \in ItemListsOf(fields)}

TableColl == Collection(TableName, "todo", <<TextField>>, <<>>, 0, 0)

NextCodec ==
    \/ \E fields \in CodecFieldLists : \E c \in CodecColls(fields) :
          /\ result.op = "none"
          /\ Save(c)
    \/ /\ result.op = "none"
       /\ Save(TableColl)
    \/ /\ result.op = "save"
       /\ Load(result.name, Len(result.arg.items) + 1)

SpecCodec == Init /\ [][NextCodec]_vars

(***************************************************************************)
(* The table codec on hand-written rows and on boolean values              *)
(***************************************************************************)
CellAlphabet == {CheckMark, CrossMark, " ", "1", "|"}

RawCells == UNION {[1..n -> CellAlphabet] : n \in 0..MaxCellLen}

DecodeFields == <<BoolField, TextField>>

\* a table of one data row whose cells are raw
raw_table(raws) ==
    str_join(NL, <<table_row(<<BoolField.name, TextField.name>>),
                   table_row(<<<<"-", "-", "-">>, <<"-", "-", "-">>>>),
                   Pipe \o str_join(Pipe, raws) \o Pipe>>)

Decoded(raws, text, items) ==
    /\ result' = Outcome("decode", text, raws, TRUE, items, NoError)
    /\ uuid' = uuid + Len(items)
    /\ UNCHANGED <<dir, journal, memory, writer>>

\* self._markdown_table_to_items(text, fields) on a hand-written table
Decode(raws) ==
    Decoded(raws, raw_table(raws), markdown_table_to_items(raw_table(raws), DecodeFields, uuid))

\* self._items_to_markdown_table(collection) on one Item holding a boolean
Encode(b) ==
    /\ result' = Outcome("encode", <<>>, b, TRUE,
                         items_to_markdown_table(
                             Collection(<<"c">>, "todo", <<BoolField>>,
                                        <<Item(BoolField.name :> BoolV(b), -1)>>, 0, 0)),
                         NoError)
    /\ UNCHANGED <<dir, uuid, journal, memory, writer>>

NextDecode ==
    \/ \E r1 \in RawCells, r2 \in {<<>>, <<"x">>} :
          /\ result.op = "none"
          /\ Decode(<<r1, r2>>)
    \/ \E b \in BOOLEAN :
          /\ result.op = "none"
          /\ Encode(b)

SpecDecode == Init /\ [][NextDecode]_vars

(***************************************************************************)
(* The loader on files written by hand                                     *)
(***************************************************************************)
\* a file put into the data directory by an editor, not by save_collection
Put(collection_name, content) ==
    /\ dir' = write_file(dir, get_file_path(collection_name), content)
    /\ result' = Outcome("put", collection_name, content, TRUE, <<>>, NoError)
    /\ UNCHANGED <<uuid, journal, memory, writer>>

\* a mapping without one of its keys
Without(mapping, key) == [k \in DOMAIN mapping \ {key} |-> mapping[k]]

CollectionKeys == {"name", "type", "created_at", "updated_at"}

HandYaml == collection_to_yaml_data(Collection(<<"b">>, "todo", <<TextField>>, <<>>, 0, 1))

\* frontmatter data as written, with a key left out here or there
HandYamls ==
    {HandYaml, Without(HandYaml, "collection"), Without(HandYaml, "fields")}
    \cup {[HandYaml EXCEPT !.collection = Without(@, k)] : k \in CollectionKeys}
    \cup {[HandYaml EXCEPT !.fields = <<Without(@[1], k)>>]
             : k \in {"name", "type", "required", "options"}}

HandHeading == <<"#", " ", "b", "\n", "\n">>

HandTable == <<"|", "t", "|", "\n", "|", "-", "|", "\n", "|", "x", "|", "\n">>

\* the file texts: well delimited, without the opening line, without the
\* closing line, and with a header that is not a mapping
HandFiles ==
    {[yaml |-> y,
      text |-> FrontmatterOpen \o yaml_dump(y) \o <<"-", "-", "-", "\n", "\n">> \o HandHeading]
        : y \in HandYamls}
    \cup {[yaml |-> HandYaml, text |-> t] :
            t \in {FrontmatterOpen \o yaml_dump(HandYaml) \o <<"-", "-", "-", "\n", "\n">>
                       \o HandHeading \o HandTable,
                   <<>>,
                   Drop(FrontmatterOpen, 1) \o yaml_dump(HandYaml) \o <<"-", "-", "-", "\n">>,
                   yaml_dump(HandYaml) \o <<"-", "-", "-", "\n">> \o HandHeading,
                   FrontmatterOpen \o yaml_dump(HandYaml) \o HandHeading,
                   FrontmatterOpen \o yaml_dump(HandYaml) \o <<"-", "-", "\n">>,
                   FrontmatterOpen \o <<"x", "\n", "-", "-", "-", "\n">> \o HandHeading,
                   FrontmatterOpen \o <<"-", " ", "x", "\n", "-", "-", "-", "\n">>,
                   FrontmatterOpen \o <<"-", "-", "-", "\n">> \o HandHeading}}

FormatNames == {<<"a", "/">>, <<"b">>}

NextFormat ==
    \/ \E n \in FormatNames : \E content \in HandFiles : Put(n, content)
    \/ \E n \in FormatNames : Load(n, MaxUuid)

SpecFormat == Init /\ [][NextFormat]_vars

(***************************************************************************)
(* The loader on hand-written tables                                       *)
(***************************************************************************)
RowX == <<"|", "x", "|">>

RowY == <<"|", " ", "y", " ", "|">>

\* two cells under one column
RowTwo == <<"|", "x", "|", "y", "|">>

\* no closing "|"
RowOpen == <<"|", "x">>

\* no opening "|"
RowBare == <<"x", "|">>

RowBlank == <<>>

\* one cell, empty
RowEmpty == <<"|", " ", "|">>

RowKinds == {RowX, RowY, RowTwo, RowOpen, RowBare, RowBlank, RowEmpty}

RowTables == UNION {[1..n -> RowKinds] : n \in 1..MaxRows}

\* a saved file of one text column t whose data lines are rows
RowFile(rows) ==
    [yaml |-> HandYaml,
     text |-> FrontmatterOpen \o yaml_dump(HandYaml) \o <<"-", "-", "-", "\n", "\n">>
              \o HandHeading \o <<"|", "t", "|", "\n", "|", "-", "|", "\n">>
              \o str_join(NL, rows) \o NL]

NextRows ==
    \/ \E rows \in RowTables :
          /\ result.op = "none"
          /\ Put(<<"b">>, RowFile(rows))
    \/ /\ result.op = "put"
       /\ Load(result.name, MaxRows)

SpecRows == Init /\ [][NextRows]_vars

(***************************************************************************)
(* Two store instances on one data directory                               *)
(***************************************************************************)
\* storage i enters save_collection(collection) and opens the file (line 193)
SaveOpen(i, collection) ==
    /\ ~writer[i].open
    /\ dir' = truncate(dir, get_file_path(collection.name))
    /\ writer' = [writer EXCEPT ![i] = [open       |-> TRUE,
                                        collection |-> collection,
                                        file_path  |-> get_file_path(collection.name),
                                        content    |-> file_content(collection)]]
    /\ result' = Outcome("open", collection.name, collection, TRUE, <<>>, NoError)
    /\ UNCHANGED <<uuid, journal, memory>>

Closed(i, w, before) ==
    /\ dir' = flush(dir, w.file_path, w.content)
    /\ writer' = [writer EXCEPT ![i] = Idle]
    /\ journal' = journal_save(w.file_path, w.collection, before)
    /\ result' = Outcome("save", w.collection.name, w.collection, TRUE, <<>>, NoError)
    /\ UNCHANGED <<uuid, memory>>

\* storage i writes, closes the file and returns (line 194)
SaveClose(i) ==
    /\ writer[i].open
    /\ Closed(i, writer[i],
              IF writer[i].file_path \in DOMAIN journal
              THEN journal[writer[i].file_path].names ELSE {})

ConcurrentNames == {<<"a", "/">>, <<"b">>}

ConcurrentColls == {c \in StoreColls : c.name \in ConcurrentNames}

NextConcurrent ==
    \/ \E i \in Stores : \E c \in ConcurrentColls : SaveOpen(i, c)
    \/ \E i \in Stores : SaveClose(i)
    \/ \E n \in ConcurrentNames : Load(n, MaxUuid)

SpecConcurrent == Init /\ [][NextConcurrent]_vars

(***************************************************************************)
(* The path resolver on any name                                           *)
(***************************************************************************)
NameAlphabet == UnsafeChars \cup {"a", ".", " "}

Names == UNION {[1..n -> NameAlphabet] : n \in 0..MaxNameLen}

\* self._sanitize_filename(name)
Sanitize(name) ==
    /\ result' = Outcome("sanitize", name, <<>>, TRUE, sanitize_filename(name), NoError)
    /\ UNCHANGED <<dir, uuid, journal, memory, writer>>

NextSanitize ==
    \E name \in Names :
        /\ result.op = "none"
        /\ Sanitize(name)

SpecSanitize == Init /\ [][NextSanitize]_vars

(***************************************************************************)
(* A Collection in memory under add_item                                   *)
(***************************************************************************)
\* Collection(name, type, fields, created_at=..., updated_at=...): the caller
\* gives the timestamps, as load_collection does, or leaves them to now()
New(fields, created_at, updated_at) ==
    /\ result.op = "none"
    /\ mem' = Collection(<<"c">>, "todo", fields, <<>>, created_at, updated_at)
    /\ result' = Outcome("new", <<"c">>, <<>>, TRUE, <<>>, NoError)
    /\ UNCHANGED <<dir, uuid, journal, now, writer>>

\* time passes
Tick ==
    /\ now < MaxClock
    /\ now' = now + 1
    /\ UNCHANGED <<dir, uuid, journal, result, mem, writer>>

Added(data, r) ==
    /\ mem' = r.collection
    /\ uuid' = uuid + 1
    /\ result' = Outcome("add_item", mem.name, data, TRUE, r.item, NoError)
    /\ UNCHANGED <<dir, journal, now, writer>>

\* collection.add_item(data)
AddItem(data) ==
    /\ result.op \in {"new", "add_item"}
    /\ Len(mem.items) < MaxItems
    /\ Added(data, add_item(mem, data, uuid + 1, now))

\* the data given to add_item: nothing, a declared key, an undeclared key
AppendDatas ==
    {<<>>, <<"t">> :> StrV(<<"x">>), <<"k">> :> IntV(1)}

NextAppend ==
    \/ \E fields \in {<<>>, <<TextField>>} : \E t \in 0..MaxClock :
          New(fields, now, t)
    \/ Tick
    \/ \E data \in AppendDatas : AddItem(data)

SpecAppend == Init /\ [][NextAppend]_vars

(***************************************************************************)
(* Claims                                                                  *)
(***************************************************************************)
Elems(seq) == {seq[i] : i \in 1..Len(seq)}

DataOf(items) == [k \in 1..Len(items) |-> items[k].data]

\* the names saved whose file was not deleted since
SavedNames == UNION {journal[f].names : f \in DOMAIN journal}

\* the Collection saved last to the file of that name
LastSaved(name) == journal[get_file_path(name)].last

\* equal in name, type, field list and per-item data
SameContent(a, b) ==
    /\ a.name = b.name
    /\ a.type = b.type
    /\ a.fields = b.fields
    /\ DataOf(a.items) = DataOf(b.items)

UniqueFieldNames(c) ==
    \A i, j \in 1..Len(c.fields) : c.fields[i].name = c.fields[j].name => i = j

TypeMatches(type, value) ==
    IF type = "boolean" THEN value.t = "bool"
    ELSE IF type = "number" THEN value.t \in {"int", "float"}
    ELSE value.t = "str"

\* every value of every item is of its field's declared type
ValuesMatch(c) ==
    \A k \in 1..Len(c.items) : \A name \in DOMAIN c.items[k].data :
        \E i \in 1..Len(c.fields) :
            /\ c.fields[i].name = name
            /\ TypeMatches(c.fields[i].type, c.items[k].data[name])

\* every item holds a value under some key
NoEmptyItem(c) == \A k \in 1..Len(c.items) : DOMAIN c.items[k].data # {}

\* C1: a Collection with unique field names and values of the declared types,
\* saved and then loaded by its name, comes back equal in name, type, field
\* list and per-item data (stated for collections whose every item holds a
\* value, so that no row is dropped for being empty).
C1_RoundTrip ==
    (/\ result.op = "load"
     /\ UniqueFieldNames(LastSaved(result.name))
     /\ ValuesMatch(LastSaved(result.name))
     /\ NoEmptyItem(LastSaved(result.name)))
        => (result.ok /\ SameContent(result.value, LastSaved(result.name)))

HasPipe(value) == value.t = "str" /\ str_contains(value.s, Pipe)

\* C2: a text value holding "|" comes back unchanged from encode then decode,
\* and its row is not lost (stated for collections whose every item holds a
\* value, so that no row is dropped for being empty).
C2_PipeRoundTrip ==
    (/\ result.op = "load"
     /\ UniqueFieldNames(LastSaved(result.name))
     /\ NoEmptyItem(LastSaved(result.name)))
        => \A k \in 1..Len(LastSaved(result.name).items) :
              \A name \in DOMAIN LastSaved(result.name).items[k].data :
                 (/\ FieldNamed(LastSaved(result.name).fields, name).type = "text"
                  /\ HasPipe(LastSaved(result.name).items[k].data[name]))
                    => /\ result.ok
                       /\ Len(result.value.items) = Len(LastSaved(result.name).items)
                       /\ name \in DOMAIN result.value.items[k].data
                       /\ result.value.items[k].data[name]
                              = LastSaved(result.name).items[k].data[name]

NamePreservedStep ==
    (result.op = "save" /\ result'.op = "load" /\ result'.name = result.name)
        => (result'.ok /\ result'.value.name = result.name)

\* C3: a load of name n issued right after save(c) with c.name = n succeeds and
\* returns a Collection whose name is n, also when n holds unsafe characters
\* or sanitizes to another string.
C3_NamePreserved == [][NamePreservedStep]_vars

C3_Witness ==
    /\ result.op = "load"
    /\ result.ok
    /\ result.value.name = result.name
    /\ sanitize_filename(result.name) # result.name
    /\ \E i \in 1..Len(result.name) : result.name[i] \in UnsafeChars

NotFoundStep ==
    (result'.op \in {"load", "delete"} /\ get_file_path(result'.name) \notin DOMAIN dir)
        => /\ ~result'.ok
           /\ result'.error = PersistenceError("not found", "")
           /\ result'.error.cls = Wrapped("KeyError", 0).error.cls
           /\ dir' = dir

\* C4 (amended): load(name) and delete(name) with no file at the resolved path
\* fail with the PersistenceError "Collection '<name>' not found", raised as it
\* is (no cause, no "Failed to ..." wrapper) and of the same class as the
\* wrapped errors, and leave the directory unchanged.
C4_NotFoundRaised == [][NotFoundStep]_vars

C4_Witness ==
    /\ result.op = "delete"
    /\ ~result.ok
    /\ result.error.msg = "not found"
    /\ DOMAIN dir # {}

NotFoundKindStep ==
    (result'.op \in {"load", "delete"} /\ get_file_path(result'.name) \notin DOMAIN dir)
        => /\ ~result'.ok
           /\ result'.error.cls = "NotFoundError"
           /\ result'.error.cls # Wrapped("KeyError", 0).error.cls
           /\ dir' = dir

\* C4 as claimed: the failure is a NotFoundError, a kind of error other than
\* the wrapped PersistenceError.
C4_NotFoundKind == [][NotFoundKindStep]_vars

\* C5: list() returns exactly the sanitized names of the collections saved and
\* not deleted since, each once, in ascending order; [] when there is none.
C5_ListExact ==
    result.op = "list"
        => /\ result.ok
           /\ Elems(result.value) = {sanitize_filename(n) : n \in SavedNames}
           /\ \A i, j \in 1..Len(result.value) :
                  i < j => str_lt(result.value[i], result.value[j])

C5_Witness ==
    /\ result.op = "list"
    /\ Len(result.value) >= 2
    /\ \E n \in SavedNames : sanitize_filename(n) \notin SavedNames

SavedAs(name) == \E n \in SavedNames : sanitize_filename(n) = sanitize_filename(name)

ExistsStep ==
    /\ \A n \in StoreNames :
          collection_exists(dir, n) <=> (get_file_path(n) \in DOMAIN dir /\ SavedAs(n))
    /\ result'.op = "exists"
          => /\ result'.ok
             /\ result'.value \in BOOLEAN
             /\ result'.value <=> get_file_path(result'.name) \in DOMAIN dir
             /\ result'.value <=> SavedAs(result'.name)
             /\ dir' = dir
    /\ (result'.op = "delete" /\ result'.ok)
          => /\ ~collection_exists(dir', result'.name)
             /\ sanitize_filename(result'.name) \notin Elems(list_collections(dir'))

\* C6: exists(name) is true exactly when a file is at the resolved path, that
\* is when a collection of a name sanitizing alike was saved and not deleted
\* since; right after a successful delete(name), exists(name) is false and the
\* sanitized name is not listed; exists raises nothing and changes no file.
C6_ExistsExact == [][ExistsStep]_vars

C6_Witness ==
    /\ result.op = "exists"
    /\ result.value = TRUE
    /\ result.name \notin SavedNames

\* C7: after saves under two names n1 # n2 that sanitize alike, the last one
\* under n2, every save has succeeded, one file and one list() entry stand for
\* both, and load(n1) returns the content saved under n2.
C7_SilentOverwrite ==
    /\ result.op = "save" => (result.ok /\ result.error = NoError)
    /\ \A f \in DOMAIN journal : \A n1 \in journal[f].names :
          n1 # journal[f].last.name
             => /\ sanitize_filename(n1) = sanitize_filename(journal[f].last.name)
                /\ Cardinality({g \in DOMAIN dir : path_stem(g) = sanitize_filename(n1)}) = 1
                /\ Cardinality({i \in 1..Len(list_collections(dir)) :
                                   list_collections(dir)[i] = sanitize_filename(n1)}) = 1
                /\ load_collection(dir, n1, uuid).ok
                /\ SameContent(load_collection(dir, n1, uuid).value, journal[f].last)
    /\ (result.op = "load" /\ result.ok)
          => SameContent(result.value, LastSaved(result.name))

C7_Witness ==
    /\ result.op = "load"
    /\ result.ok
    /\ result.value.name # result.name
    /\ {result.name, result.value.name} \subseteq journal[get_file_path(result.name)].names
    /\ Len(dir[get_file_path(result.name)].text) > 0

\* the cell a raw cell of a row without "|" inside its cells is read as
CellOf(raw) == str_strip(raw, Whitespace)

\* C8: true is written as the check mark and false as the ballot x; a boolean
\* cell that is the check mark reads as true, any other non-empty cell as
\* false, and an empty cell stores no key for the field.
C8_BooleanCells ==
    /\ result.op = "encode"
          => result.value = str_join(NL, <<table_row(<<BoolField.name>>),
                                           table_row(<<<<"-", "-", "-">>>>),
                                           table_row(<<IF result.arg THEN <<CheckMark>>
                                                       ELSE <<CrossMark>>>>)>>)
    /\ (result.op = "decode" /\ \A i \in 1..2 : ~str_contains(result.arg[i], Pipe))
          => /\ result.ok
             /\ (CellOf(result.arg[1]) = <<>> /\ CellOf(result.arg[2]) = <<>>)
                   => result.value = <<>>
             /\ (CellOf(result.arg[1]) # <<>> \/ CellOf(result.arg[2]) # <<>>)
                   => /\ Len(result.value) = 1
                      /\ CellOf(result.arg[1]) = <<>>
                            => BoolField.name \notin DOMAIN result.value[1].data
                      /\ CellOf(result.arg[1]) # <<>>
                            => /\ BoolField.name \in DOMAIN result.value[1].data
                               /\ result.value[1].data[BoolField.name]
                                     = BoolV(CellOf(result.arg[1]) = <<CheckMark>>)

C8_Witness ==
    /\ result.op = "decode"
    /\ CellOf(result.arg[1]) = <<"1", CrossMark>>
    /\ Len(result.value) = 1
    /\ result.value[1].data[BoolField.name] = BoolV(FALSE)

IsNumber(value) == value.t \in {"int", "float"}

\* C9 (its conclusion): an integer saved in a number field loads back as the
\* same integer and a real as the same real (stated for collections whose
\* fields are all numbers and whose items hold a number for every field).
C9_NumberRoundTrip ==
    (/\ result.op = "load"
     /\ UniqueFieldNames(LastSaved(result.name))
     /\ LastSaved(result.name).fields # <<>>
     /\ \A i \in 1..Len(LastSaved(result.name).fields) :
            /\ LastSaved(result.name).fields[i].type = "number"
            /\ \A k \in 1..Len(LastSaved(result.name).items) :
                  /\ LastSaved(result.name).fields[i].name
                        \in DOMAIN LastSaved(result.name).items[k].data
                  /\ IsNumber(LastSaved(result.name).items[k].data[
                                  LastSaved(result.name).fields[i].name]))
        => /\ result.ok
           /\ DataOf(result.value.items) = DataOf(LastSaved(result.name).items)

\* C10: a Collection without items is saved as a file that ends after the
\* heading and its blank line, and loads back with items == [] and the same
\* fields in the same order.
C10_EmptyCollection ==
    (result.op = "load" /\ LastSaved(result.name).items = <<>>)
        => /\ result.ok
           /\ str_endswith(dir[get_file_path(result.name)].text,
                           <<"#", " ">> \o result.name \o <<"\n", "\n">>)
           /\ result.value.items = <<>>
           /\ result.value.fields = LastSaved(result.name).fields

\* two loads of one name, one right after the other
TwoLoads == result.op = "load" /\ result'.op = "load" /\ result'.name = result.name

LoadAgainStep ==
    TwoLoads
        => /\ result'.ok = result.ok
           /\ result'.error = result.error
           /\ result.ok
                 => /\ result'.value.name = result.value.name
                    /\ result'.value.type = result.value.type
                    /\ result'.value.created_at = result.value.created_at
                    /\ result'.value.updated_at = result.value.updated_at
                    /\ result'.value.fields = result.value.fields
                    /\ DataOf(result'.value.items) = DataOf(result.value.items)

\* C11 (amended): two loads of a name with no save or delete between them both
\* succeed or both fail alike, and when they succeed they return the same
\* name, type, timestamps and field list and items of the same data in the
\* same order; the Items themselves are new objects with new ids.
C11_LoadIdempotent == [][LoadAgainStep]_vars

C11_Witness ==
    /\ result.op = "load"
    /\ result.ok
    /\ Len(result.value.items) = 1
    /\ result.value.items[1].id = 2

LoadEqualStep == (TwoLoads /\ result.ok) => result'.value = result.value

\* C11 as claimed: the second load returns a result equal to the first, the
\* sequence of items included.
C11_LoadEqual == [][LoadEqualStep]_vars

\* the file starts with the opening delimiter line
OpensFrontmatter(text) == str_startswith(text, FrontmatterOpen)

\* the lines after the first that are the closing delimiter
ClosingLines(lines) == {i \in 2..Len(lines) : lines[i] = <<"-", "-", "-">>}

\* the header between the delimiter lines is a dumped mapping
HeaderIsMapping(lines) ==
    /\ ClosingLines(lines) # {}
    /\ SubSeq(lines, 2, MinOf(ClosingLines(lines)) - 1) = <<<<YamlDoc>>>>

LacksKeys(yaml_data) ==
    \/ "collection" \notin DOMAIN yaml_data
    \/ ~(CollectionKeys \subseteq DOMAIN yaml_data.collection)
    \/ /\ "fields" \in DOMAIN yaml_data
       /\ \E i \in 1..Len(yaml_data.fields) :
              ~({"name", "type"} \subseteq DOMAIN yaml_data.fields[i])

\* the file is one that the claim says must not load
BadFormat(content) ==
    IF ~OpensFrontmatter(content.text) THEN TRUE
    ELSE IF ~HeaderIsMapping(str_split(content.text, NL)) THEN TRUE
    ELSE LacksKeys(content.yaml)

FieldDefaults(fields_data, fields) ==
    \A i \in 1..Len(fields) :
        /\ "required" \notin DOMAIN fields_data[i] => fields[i].required = FALSE
        /\ "options" \notin DOMAIN fields_data[i] => fields[i].options = <<>>

LoadedFrom(content, r) ==
    /\ BadFormat(content)
          => (~r.ok /\ r.error.cls = "PersistenceError" /\ r.value = <<>>)
    /\ (r.ok /\ "fields" \in DOMAIN content.yaml)
          => FieldDefaults(content.yaml.fields, r.value.fields)

FormatStep ==
    (result'.op = "load" /\ get_file_path(result'.name) \in DOMAIN dir)
        => /\ dir' = dir
           /\ LoadedFrom(dir[get_file_path(result'.name)], result')

\* C12: load of an existing file fails with a PersistenceError, and returns no
\* Collection, when the file lacks the opening or the closing delimiter line,
\* has a header that is not a mapping, lacks one of the collection keys or has
\* a field entry without name or type; a field entry without required or
\* options loads with required = false and options = []; no load changes the
\* directory.
C12_FormatChecked == [][FormatStep]_vars

C12_Witness ==
    /\ result.op = "load"
    /\ ~result.ok
    /\ result.error.cause = "KeyError"
    /\ OpensFrontmatter(dir[get_file_path(result.name)].text)
    /\ "collection" \in DOMAIN dir[get_file_path(result.name)].yaml
    /\ "updated_at" \notin DOMAIN dir[get_file_path(result.name)].yaml.collection

\* C13: sanitize(name) is never empty and holds none of < > : " / \ | ? *; a
\* name of which replacing and trimming leaves nothing, that is a name of dots
\* and spaces only, gives unnamed_collection.
C13_SanitizeTotal ==
    result.op = "sanitize"
        => /\ result.value # <<>>
           /\ \A i \in 1..Len(result.value) : result.value[i] \notin UnsafeChars
           /\ (\A i \in 1..Len(result.name) : result.name[i] \in {".", " "})
                 => result.value = UnnamedCollection
           /\ (\E i \in 1..Len(result.name) : result.name[i] \notin {".", " "})
                 => /\ Len(result.value) <= Len(result.name)
                    /\ result.value # UnnamedCollection

C13_Witness ==
    /\ result.op = "sanitize"
    /\ Len(result.name) = 3
    /\ result.value = UnnamedCollection

\* an add_item call draws an Item id; time passing draws none
AppendStep ==
    (result'.op = "add_item" /\ uuid' # uuid)
        => /\ mem'.items = Append(mem.items, result'.value)
           /\ result'.value.data = result'.arg
           /\ \A k \in 1..Len(mem.items) : result'.value.id # mem.items[k].id
           /\ mem'.updated_at = now
           /\ mem'.updated_at >= mem.updated_at
           /\ mem'.name = mem.name
           /\ mem'.type = mem.type
           /\ mem'.fields = mem.fields
           /\ mem'.created_at = mem.created_at

\* C14: every add_item call appends one new Item of the given data at the end
\* of items, leaves the earlier items as they are, returns that Item and sets
\* updated_at to the time of the call; updated_at never decreases, and name,
\* type, fields and created_at stay as they are.
C14_ItemAppend == [][AppendStep]_vars

\* the data lines of a file made by RowFile: what follows the frontmatter, the
\* heading, the header line and the separator line
DataLines(text) == Drop(str_split(text, NL), 8)

\* the item data a data line stands for, if any
RowItem(line) ==
    IF line = RowX THEN <<(<<"t">> :> StrV(<<"x">>))>>
    ELSE IF line = RowY THEN <<(<<"t">> :> StrV(<<"y">>))>>
    ELSE <<>>

RECURSIVE RowItems(_)
RowItems(lines) ==
    IF lines = <<>> THEN <<>> ELSE RowItem(Head(lines)) \o RowItems(Tail(lines))

\* the lines before the first non-blank line that does not start with "|"
UntilBreak(lines) ==
    IF \E i \in 1..Len(lines) : lines[i] = RowBare
    THEN SubSeq(lines, 1, MinOf({i \in 1..Len(lines) : lines[i] = RowBare}) - 1)
    ELSE lines

\* C15 (amended): load succeeds on a table with malformed data lines; a line
\* that starts with "|" but does not end with "|", or whose cell count differs
\* from the header's, gives no item and the well-formed rows around it give
\* theirs in file order; a non-blank line that does not start with "|" ends
\* the table, so neither it nor any row after it gives an item.
C15_RowsUntilBreak ==
    (result.op = "load" /\ get_file_path(result.name) \in DOMAIN dir)
        => /\ result.ok
           /\ DataOf(result.value.items)
                 = RowItems(UntilBreak(DataLines(dir[get_file_path(result.name)].text)))

C15_Witness ==
    /\ result.op = "load"
    /\ result.ok
    /\ DataLines(dir[get_file_path(result.name)].text) = <<RowX, RowTwo, RowY, <<>>>>
    /\ Len(result.value.items) = 2

\* C15 as claimed: every well-formed data row with a non-empty cell gives its
\* item, whatever malformed lines stand before it.
C15_RowsSkipped ==
    (result.op = "load" /\ get_file_path(result.name) \in DOMAIN dir)
        => /\ result.ok
           /\ DataOf(result.value.items)
                 = RowItems(DataLines(dir[get_file_path(result.name)].text))

\* a is b with some elements left out, the others in their order
IsSubsequence(a, b) ==
    \E f \in [1..Len(a) -> 1..Len(b)] :
        /\ \A i, j \in 1..Len(a) : i < j => f[i] < f[j]
        /\ \A i \in 1..Len(a) : a[i] = b[f[i]]

\* C16: load returns the fields in the order saved, and the loaded items are
\* saved items in their saved order: none is moved, and none is one that was
\* not saved.
C16_OrderPreserved ==
    (/\ result.op = "load"
     /\ UniqueFieldNames(LastSaved(result.name))
     /\ ValuesMatch(LastSaved(result.name)))
        => /\ result.ok
           /\ result.value.fields = LastSaved(result.name).fields
           /\ IsSubsequence(DataOf(result.value.items), DataOf(LastSaved(result.name).items))

\* the files other than file_path are the same files with the same content
OthersKept(file_path) ==
    /\ DOMAIN dir' \ {file_path} = DOMAIN dir \ {file_path}
    /\ \A f \in DOMAIN dir \ {file_path} : dir'[f] = dir[f]

FrameStep ==
    /\ result'.op = "save"
          => /\ OthersKept(get_file_path(result'.name))
             /\ get_file_path(result'.name) \in DOMAIN dir'
             /\ result'.arg \in StoreColls
             /\ result'.arg.name = result'.name
    /\ result'.op = "delete"
          => /\ OthersKept(get_file_path(result'.name))
             /\ result'.ok <=> get_file_path(result'.name) \in DOMAIN dir
             /\ result'.ok => get_file_path(result'.name) \notin DOMAIN dir'
             /\ ~result'.ok => dir' = dir
    /\ result'.op \in {"load", "list", "exists"} => dir' = dir

\* C17: save(c) changes the file at resolve(c.name) and no other file, and
\* the Collection handed in is as it was; delete(name) removes the file at
\* resolve(name) and no other; load, list and exists change no file, whether
\* they succeed or fail.
C17_Frame == [][FrameStep]_vars

C17_Witness ==
    /\ result.op = "delete"
    /\ result.ok
    /\ Cardinality(DOMAIN dir) = 2
    /\ \E f \in DOMAIN journal : Cardinality(journal[f].names) = 2

\* the save of storage i is between its open() and its close()
Opens(i) == ~writer[i].open /\ writer'[i].open

Closes(i) == writer[i].open /\ ~writer'[i].open

\* the file is one that some save writes as a whole
Complete(content) == \E c \in ConcurrentColls : content = file_content(c)

TornStep ==
    /\ \A i \in Stores :
          /\ Opens(i) => dir'[writer'[i].file_path].text = <<>>
          /\ Closes(i)
                => /\ result'.op = "save"
                   /\ result'.ok
                   /\ result'.error = NoError
                   /\ dir'[writer[i].file_path].text
                         = writer[i].content.text
                           \o Drop(dir[writer[i].file_path].text, Len(writer[i].content.text))
    /\ result'.op = "load"
          => /\ dir' = dir
             /\ writer' = writer
             /\ (/\ get_file_path(result'.name) \in DOMAIN dir
                 /\ dir[get_file_path(result'.name)].text = <<>>)
                   => result'.error
                        = PersistenceError("Invalid file format: missing YAML frontmatter", "")

\* C18: save empties the file when it opens it and writes it when it closes
\* it, nothing keeps another store instance out in between: a load in between
\* reads the empty file and fails on its format, a save in between leaves its
\* tail behind the content written last, and every save returns without an
\* error all the same.
C18_TornWrite == [][TornStep]_vars

C18_Witness ==
    /\ \A i \in Stores : ~writer[i].open
    /\ result.op = "save"
    /\ result.ok
    /\ ~Complete(dir[get_file_path(result.name)])

FieldNamesOf(c) == {c.fields[i].name : i \in 1..Len(c.fields)}

\* C19: after save then load, every loaded item holds keys of declared fields
\* only, no more items come back than were saved, and a collection without
\* fields is written without a table and loads without items.
C19_LossyLoad ==
    result.op = "load"
        => /\ result.ok
           /\ \A k \in 1..Len(result.value.items) :
                  DOMAIN result.value.items[k].data \subseteq FieldNamesOf(LastSaved(result.name))
           /\ Len(result.value.items) <= Len(LastSaved(result.name).items)
           /\ LastSaved(result.name).fields = <<>>
                 => /\ result.value.items = <<>>
                    /\ items_to_markdown_table(LastSaved(result.name)) = <<>>

\* sanitize applied twice is sanitize applied once, on every name of up to
\* MaxNameLen characters
SanitizeIdempotent ==
    \A n \in Names : sanitize_filename(sanitize_filename(n)) = sanitize_filename(n)

\* the stem of the file of a name is the sanitized name, dots inside included
StemIsSanitized ==
    \A n \in Names : path_stem(get_file_path(n)) = sanitize_filename(n)

\* C20: sanitize is idempotent, so every name s that list() returns resolves
\* to its own file: exists(s) is true, and load(s) succeeds and returns what
\* was saved last to the file s was listed for, under whatever name.
C20_ListedLoadable ==
    /\ SanitizeIdempotent
    /\ StemIsSanitized
    /\ \A k \in 1..Len(list_collections(dir)) :
          /\ sanitize_filename(list_collections(dir)[k]) = list_collections(dir)[k]
          /\ path_stem(get_file_path(list_collections(dir)[k])) = list_collections(dir)[k]
          /\ collection_exists(dir, list_collections(dir)[k])
          /\ load_collection(dir, list_collections(dir)[k], uuid).ok
          /\ SameContent(load_collection(dir, list_collections(dir)[k], uuid).value,
                         LastSaved(list_collections(dir)[k]))

C20_Witness ==
    /\ result.op = "list"
    /\ \E k \in 1..Len(result.value) :
          /\ result.value[k] \notin SavedNames
          /\ load_collection(dir, result.value[k], uuid).ok
          /\ load_collection(dir, result.value[k], uuid).value.name # result.value[k]

====
